---- MODULE Spec2Model ----
(***************************************************************************)
(* AS7331 UV sensor data logger (uv_readings.ino): setup(), loop(),        *)
(* configureSensor(), connectWiFi(), readAndPostData(),                    *)
(* createJsonPayload() and sendDataToServer() as one sequential state      *)
(* machine.  The sensor driver, the Wi-Fi stack and the HTTP client are    *)
(* collaborators: each of their calls returns a value chosen from a small  *)
(* set.  Time is the millisecond clock behind millis() and delay().        *)
(***************************************************************************)
EXTENDS Integers, Sequences, FiniteSets, TLC

VARIABLES
    pc,               \* position of the single thread of control
    now,              \* real milliseconds since boot
    lastPostTime,     \* unsigned long lastPostTime
    attempts,         \* int attempts of connectWiFi
    ret,              \* caller connectWiFi returns to: "setup" | "cycle" | "none"
    status,           \* value of the latest WiFi.status() call at line 105
    sample,           \* uvaData, uvbData, uvcData, tempData of readAndPostData
    jsonPayload,      \* String jsonPayload of readAndPostData / sendDataToServer
    httpResponseCode, \* int httpResponseCode of sendDataToServer
    httpOpen,         \* HTTPClient between http.begin and http.end
    \* ---- observations (history of what the code did) ----
    beginResult,      \* what uvSensor.begin() returned
    configResult,     \* what prepareMeasurement() returned
    networkUsed,      \* WiFi.begin or http.POST has been called
    cycles,           \* calls of readAndPostData so far
    cycleStart,       \* time the latest cycle started
    prevStart,        \* time the cycle before it started
    readResult,       \* result of readAll in the current cycle
    txStatus,         \* WiFi.status() seen at line 162 in the current cycle
    statusCalls,      \* WiFi.status() calls in the current cycle
    posts,            \* http.POST calls in the current cycle
    postedBody,       \* body handed to http.POST in the current cycle
    warned,           \* the all-zero warning was printed in the current cycle
    outcome,          \* how the latest cycle ended
    prevOutcome,      \* while a cycle runs: how the cycle before it ended
    epoch,            \* unsigned long clock value at the time now = 0 (0 at boot)
    tickAt,           \* time at which lastPostTime was last set
    startupWiFi       \* until the first cycle ends: what connectWiFi reported in setup

vars == <<pc, now, lastPostTime, attempts, ret, status, sample, jsonPayload,
          httpResponseCode, httpOpen, beginResult, configResult, networkUsed,
          cycles, cycleStart, prevStart, readResult, txStatus, statusCalls,
          posts, postedBody, warned, outcome, prevOutcome, epoch, tickAt,
          startupWiFi>>

(* ------------------------------ constants ------------------------------ *)

POST_INTERVAL == 60000
LOOP_DELAY == 100
SERIAL_DELAY == 1000
HALT_DELAY == 1000
CONVERSION_DELAY == 1000
WIFI_RETRY_DELAY == 500
MAX_ATTEMPTS == 30

\* unsigned long is 32 bits wide on the ESP32-C6.  A value is carried as its
\* two 16-bit halves <<high, low>>, so that arithmetic modulo 2^32 stays
\* within the integers TLC can represent.
Half == 2^16
U32(n) == <<(n \div Half) % Half, n % Half>>
U32Sub(a, b) ==
    LET lo == a[2] - b[2]
        borrow == IF lo < 0 THEN 1 ELSE 0
    IN  <<(a[1] - b[1] - borrow) % Half, lo % Half>>
U32Ge(a, b) == a[1] > b[1] \/ (a[1] = b[1] /\ a[2] >= b[2])
\* a + n modulo 2^32, for an unsigned long a and a number n >= 0
U32Add(a, n) ==
    LET lo == a[2] + n
    IN  <<(a[1] + (lo \div Half)) % Half, lo % Half>>

(* -------------------------------- bounds ------------------------------- *)

\* the clock stops being advanced past MaxNow (the device is observed that long)
MaxNow == 136000
\* a blocking collaborator call (readAll, http.POST) returns at once or takes
\* MaxCallTicks ticks of the clock
MaxCallTicks == 1

TickMs == LOOP_DELAY
CallDurations == {0, MaxCallTicks * TickMs}

(* ----------------------------- collaborators --------------------------- *)

WL_CONNECTED == "WL_CONNECTED"
WL_DISCONNECTED == "WL_DISCONNECTED"
WlStatus == {WL_CONNECTED, WL_DISCONNECTED}

ksfTkErrOk == "ksfTkErrOk"
ksfTkErrFail == "ksfTkErrFail"
ReadResults == {ksfTkErrOk, ksfTkErrFail}

\* http.POST: an HTTP status (> 0) or an HTTPClient error (<= 0)
HttpCodes == {-1, 0, 200, 404}

\* floats are carried in thousandths
Samples ==
    { [uva |-> 0,    uvb |-> 0,   uvc |-> 0,  temp |-> 25678],
      [uva |-> 0,    uvb |-> 0,   uvc |-> 15, temp |-> 25678],
      [uva |-> 1234, uvb |-> 996, uvc |-> 15, temp |-> -4] }

NoSample == [uva |-> 0, uvb |-> 0, uvc |-> 0, temp |-> 0]
NoPayload == << >>
NoCode == "none"
\* no cycle has started yet
Never == 0 - 1

(* ------------------------------ the clock ------------------------------ *)

\* millis(): the low 32 bits of the time since boot
millis == U32Add(epoch, now)

\* delay(d), or a blocking call that takes d ms
Advance(d) == now + d <= MaxNow /\ now' = now + d

(* ------------------------------ the encoder ---------------------------- *)

Abs(x) == IF x < 0 THEN -x ELSE x

\* String(value, 2): two decimals, rounded half away from zero
String2(v) ==
    LET h == (Abs(v) + 5) \div 10
    IN  [neg |-> v < 0, whole |-> h \div 100, frac |-> h % 100]

\* faulty variant: the clock is narrowed to 16 bits before it is printed
StringUL_Short(t) == <<0, t[2]>>

\* String(millis()): the unsigned long clock in decimal
StringUL(t) == t

\* faulty variant: the text also carries a count kept between calls
createJsonPayload_Counting(uva, uvb, uvc, temp) ==
    << <<"timestamp", StringUL(millis)>>,
       <<"uva", String2(uva)>>,
       <<"uvb", String2(uvb)>>,
       <<"uvc", String2(uvc)>>,
       <<"temperature", String2(temp)>>,
       <<"device", "ESP32-C6">>,
       <<"sensor", "AS7331">>,
       <<"seq", cycles>> >>

createJsonPayload(uva, uvb, uvc, temp) ==
    << <<"timestamp", StringUL(millis)>>,
       <<"uva", String2(uva)>>,
       <<"uvb", String2(uvb)>>,
       <<"uvc", String2(uvc)>>,
       <<"temperature", String2(temp)>>,
       <<"device", "ESP32-C6">>,
       <<"sensor", "AS7331">> >>

(* -------------------------------- Init --------------------------------- *)

Init ==
    /\ pc = "setup"
    /\ now = 0
    /\ lastPostTime = U32(0)
    /\ attempts = 0
    /\ ret = "none"
    /\ status = "none"
    /\ sample = NoSample
    /\ jsonPayload = NoPayload
    /\ httpResponseCode = NoCode
    /\ httpOpen = FALSE
    /\ beginResult = "none"
    /\ configResult = "none"
    /\ networkUsed = FALSE
    /\ cycles = 0
    /\ cycleStart = Never
    /\ prevStart = Never
    /\ readResult = "none"
    /\ txStatus = "none"
    /\ statusCalls = 0
    /\ posts = 0
    /\ postedBody = NoPayload
    /\ warned = FALSE
    /\ outcome = "none"
    /\ prevOutcome = "none"
    /\ epoch = U32(0)
    /\ tickAt = 0
    /\ startupWiFi = "none"

locals == <<attempts, ret, sample, jsonPayload, httpResponseCode, httpOpen>>
setupObs == <<beginResult, configResult>>
cycleObs == <<cycles, cycleStart, prevStart, readResult, txStatus, statusCalls,
              posts, postedBody, warned, outcome, prevOutcome>>

(* -------------------------------- setup -------------------------------- *)

\* lines 36-43: Serial.begin, delay(1000), Wire.begin
setup_Serial ==
    /\ pc = "setup"
    /\ Advance(SERIAL_DELAY)
    /\ pc' = "sensor_begin"
    /\ UNCHANGED <<epoch, tickAt, startupWiFi, lastPostTime, status, locals, setupObs, networkUsed, cycleObs>>

\* faulty variant: the halt loop of lines 49-51 is missing
AfterBegin_NoHalt(ok) == "configure"

\* line 46: the branch on uvSensor.begin()
AfterBegin(ok) == IF ok THEN "configure" ELSE "halt_nosensor"

\* lines 46-53: uvSensor.begin()
setup_SensorBegin ==
    /\ pc = "sensor_begin"
    /\ \E ok \in BOOLEAN :
          /\ beginResult' = (IF ok THEN "present" ELSE "absent")
          /\ pc' = AfterBegin(ok)
    /\ UNCHANGED <<epoch, tickAt, startupWiFi, now, lastPostTime, status, locals, configResult, networkUsed,
                   cycleObs>>

\* lines 49-51: while (1) { delay(1000); }
setup_Halt ==
    /\ pc = "halt_nosensor"
    /\ Advance(HALT_DELAY)
    /\ UNCHANGED <<epoch, tickAt, startupWiFi, pc, lastPostTime, status, locals, setupObs, networkUsed,
                   cycleObs>>

(* --------------------------- configureSensor --------------------------- *)

\* faulty variant: the halt loop of lines 88-90 is missing
AfterPrepare_NoHalt(ok) == "cw_begin"

\* line 86: the branch on prepareMeasurement(MEAS_MODE_CONT, true)
AfterPrepare(ok) == IF ok THEN "cw_begin" ELSE "halt_config"

\* lines 75-98, then line 59 calls connectWiFi
configureSensor ==
    /\ pc = "configure"
    /\ \E ok \in BOOLEAN :
          /\ configResult' = (IF ok THEN "accepted" ELSE "rejected")
          /\ pc' = AfterPrepare(ok)
          /\ IF ok THEN Advance(CONVERSION_DELAY) ELSE now' = now
          /\ ret' = (IF ok THEN "setup" ELSE ret)
    /\ UNCHANGED <<epoch, tickAt, startupWiFi, lastPostTime, status, attempts, sample, jsonPayload,
                   httpResponseCode, httpOpen, beginResult, networkUsed, cycleObs>>

\* lines 88-90: while (1) { delay(1000); }
configureSensor_Halt ==
    /\ pc = "halt_config"
    /\ Advance(HALT_DELAY)
    /\ UNCHANGED <<epoch, tickAt, startupWiFi, pc, lastPostTime, status, locals, setupObs, networkUsed,
                   cycleObs>>

(* ------------------------------ connectWiFi ---------------------------- *)

\* lines 102-104: WiFi.begin(ssid, password); int attempts = 0;
connectWiFi_Begin ==
    /\ pc = "cw_begin"
    /\ networkUsed' = TRUE
    /\ attempts' = 0
    /\ pc' = "cw_loop"
    /\ UNCHANGED <<epoch, tickAt, startupWiFi, now, lastPostTime, status, ret, sample, jsonPayload,
                   httpResponseCode, httpOpen, setupObs, cycleObs>>

\* faulty variant: the attempts bound is missing from the loop condition
ConnectContinue_Unbounded(st, n) == st # WL_CONNECTED

\* line 105: the loop condition
ConnectContinue(st, n) == st # WL_CONNECTED /\ n < MAX_ATTEMPTS

\* WiFi.status() calls made inside a cycle are counted
CountStatus == IF ret = "cycle" \/ pc = "transmit" THEN statusCalls + 1 ELSE statusCalls

\* lines 105-109: one evaluation of the while condition, and the body if it holds
connectWiFi_While ==
    /\ pc = "cw_loop"
    /\ \E st \in WlStatus :
          /\ status' = st
          /\ IF ConnectContinue(st, attempts)
             THEN /\ Advance(WIFI_RETRY_DELAY)
                  /\ attempts' = attempts + 1
                  /\ pc' = pc
             ELSE /\ now' = now
                  /\ attempts' = attempts
                  /\ pc' = "cw_final"
    /\ statusCalls' = CountStatus
    /\ UNCHANGED <<epoch, tickAt, startupWiFi, lastPostTime, ret, sample, jsonPayload, httpResponseCode,
                   httpOpen, setupObs, networkUsed, cycles, cycleStart, prevStart,
                   readResult, txStatus, posts, postedBody, warned, outcome,
                   prevOutcome>>

\* faulty variant: after a reconnect the cycle goes on to sendDataToServer
ConnectReturn_ThenSend(caller) == IF caller = "setup" THEN "loop" ELSE "http_begin"

\* faulty variant: after a reconnect the cycle is started over at once
ConnectReturn_Restart(caller) == IF caller = "setup" THEN "loop" ELSE "read"

\* where connectWiFi returns to: line 61 of setup, or line 169 of readAndPostData
\* (which then returns to line 68 of loop)
ConnectReturn(caller) == IF caller = "setup" THEN "loop" ELSE "cycle_end"

\* lines 111-118: the second WiFi.status(), the report, and the return
connectWiFi_Report ==
    /\ pc = "cw_final"
    /\ \E st \in WlStatus :
          /\ outcome' = (IF ret = "cycle"
                         THEN (IF st = WL_CONNECTED THEN "reconnected"
                                                    ELSE "reconnect_failed")
                         ELSE outcome)
          /\ startupWiFi' = (IF ret = "setup"
                             THEN (IF st = WL_CONNECTED THEN "connected"
                                                        ELSE "failed")
                             ELSE startupWiFi)
    /\ statusCalls' = CountStatus
    /\ pc' = ConnectReturn(ret)
    /\ status' = "none"
    /\ attempts' = 0
    /\ ret' = "none"
    /\ UNCHANGED <<epoch, tickAt, now, lastPostTime, sample, jsonPayload, httpResponseCode,
                   httpOpen, setupObs, networkUsed, cycles, cycleStart, prevStart,
                   readResult, txStatus, posts, postedBody, warned, prevOutcome>>

(* --------------------------------- loop -------------------------------- *)

\* faulty variant: the test compares the clock itself, not the time since lastPostTime
Due_NoSubtract == U32Ge(millis, U32(POST_INTERVAL))

\* faulty variant: the test is written millis() >= lastPostTime + POST_INTERVAL
Due_AddCompare == U32Ge(millis, U32Add(lastPostTime, POST_INTERVAL))

\* faulty variant: the first cycle is made at once
Due_FirstAtOnce ==
    cycles = 0 \/ U32Ge(U32Sub(millis, lastPostTime), U32(POST_INTERVAL))

\* line 66: millis() - lastPostTime >= POST_INTERVAL, in unsigned long arithmetic
Due == U32Ge(U32Sub(millis, lastPostTime), U32(POST_INTERVAL))

\* lines 66, 72: the interval has not elapsed; delay(100)
loop_Idle ==
    /\ pc = "loop"
    /\ ~Due
    /\ Advance(LOOP_DELAY)
    /\ UNCHANGED <<epoch, tickAt, startupWiFi, pc, lastPostTime, status, locals, setupObs, networkUsed,
                   cycleObs>>

\* lines 66-67: the interval has elapsed; readAndPostData() is called
loop_Fire ==
    /\ pc = "loop"
    /\ Due
    /\ pc' = "read"
    /\ cycles' = cycles + 1
    /\ prevStart' = cycleStart
    /\ cycleStart' = now
    /\ prevOutcome' = outcome
    /\ outcome' = "running"
    /\ UNCHANGED <<epoch, tickAt, startupWiFi, now, lastPostTime, status, locals, setupObs, networkUsed,
                   readResult, txStatus, statusCalls, posts, postedBody, warned>>

\* faulty variant: lastPostTime is updated only after a delivered post
TickValue_OnlyDelivered == IF outcome = "delivered" THEN millis ELSE lastPostTime

\* line 68: the value stored into lastPostTime
TickValue == millis

\* lines 68, 72: readAndPostData has returned; lastPostTime = millis(); delay(100).
\* The locals of the returned call are dead, and the observations of the cycle end.
loop_Tick ==
    /\ pc = "cycle_end"
    /\ lastPostTime' = TickValue
    /\ Advance(LOOP_DELAY)
    /\ pc' = "loop"
    /\ sample' = NoSample
    /\ jsonPayload' = NoPayload
    /\ httpResponseCode' = NoCode
    /\ readResult' = "none"
    /\ txStatus' = "none"
    /\ statusCalls' = 0
    /\ posts' = 0
    /\ postedBody' = NoPayload
    /\ warned' = FALSE
    /\ prevStart' = Never
    /\ prevOutcome' = "none"
    /\ tickAt' = now
    /\ startupWiFi' = "none"
    /\ UNCHANGED <<epoch, status, attempts, ret, httpOpen, setupObs, networkUsed, cycles,
                   cycleStart, outcome>>

(* ---------------------------- readAndPostData -------------------------- *)

\* faulty variant: a failed read halts like the failures of setup
AfterReadFailure_Halt == "halt_config"

\* faulty variant: the return of line 131 is missing
AfterReadFailure_FallThrough == "encode"

\* faulty variant: after a failed read the cycle still goes on to transmit
AfterReadFailure_ThenTransmit == "transmit"

\* lines 127-132: a failed read returns from readAndPostData
AfterReadFailure == "cycle_end"

\* lines 125-141: uvSensor.readAll() and, when it succeeds, the four getters
readAndPostData_Read ==
    /\ pc = "read"
    /\ \E result \in ReadResults, d \in CallDurations :
          /\ Advance(d)
          /\ readResult' = result
          /\ IF result # ksfTkErrOk
             THEN /\ pc' = AfterReadFailure
                  /\ outcome' = "read_failed"
                  /\ sample' = sample
             ELSE /\ pc' = "encode"
                  /\ outcome' = outcome
                  /\ \E s \in Samples : sample' = s
    /\ UNCHANGED <<epoch, tickAt, startupWiFi, lastPostTime, status, attempts, ret, jsonPayload,
                   httpResponseCode, httpOpen, setupObs, networkUsed, cycles,
                   cycleStart, prevStart, txStatus, statusCalls, posts, postedBody,
                   warned, prevOutcome>>

\* line 149: the all-zero test
AllZero(s) == s.uva = 0 /\ s.uvb = 0 /\ s.uvc = 0

\* faulty variant: an all-zero sample is dropped
AfterZeroCheck_Suppress(zero) == IF zero THEN "cycle_end" ELSE "transmit"

\* lines 149-154: the warning is printed and control falls through to line 157
AfterZeroCheck(zero) == "transmit"

\* lines 148-159: the all-zero warning, then createJsonPayload
readAndPostData_Encode ==
    /\ pc = "encode"
    /\ warned' = AllZero(sample)
    /\ jsonPayload' = createJsonPayload(sample.uva, sample.uvb, sample.uvc,
                                        sample.temp)
    /\ pc' = AfterZeroCheck(AllZero(sample))
    /\ UNCHANGED <<epoch, tickAt, startupWiFi, now, lastPostTime, status, attempts, ret, sample,
                   httpResponseCode, httpOpen, setupObs, networkUsed, cycles,
                   cycleStart, prevStart, readResult, txStatus, statusCalls, posts,
                   postedBody, outcome, prevOutcome>>

\* faulty variant: a cycle that finds the network down gives up without connectWiFi
AfterStatus_NoRetry(st) == IF st = WL_CONNECTED THEN "http_begin" ELSE "cycle_end"

\* faulty variant: the connectivity test of line 162 is missing
AfterStatus_SendAnyway(st) == "http_begin"

\* lines 162-167: the branch on WiFi.status()
AfterStatus(st) == IF st = WL_CONNECTED THEN "http_begin" ELSE "cw_begin"

\* lines 162-167: WiFi.status(), then sendDataToServer or connectWiFi
readAndPostData_Transmit ==
    /\ pc = "transmit"
    /\ \E st \in WlStatus :
          /\ txStatus' = st
          /\ pc' = AfterStatus(st)
          /\ ret' = (IF AfterStatus(st) = "cw_begin" THEN "cycle" ELSE ret)
    /\ statusCalls' = CountStatus
    /\ UNCHANGED <<epoch, tickAt, startupWiFi, now, lastPostTime, status, attempts, sample, jsonPayload,
                   httpResponseCode, httpOpen, setupObs, networkUsed, cycles,
                   cycleStart, prevStart, readResult, posts, postedBody, warned,
                   outcome, prevOutcome>>

(* --------------------------- sendDataToServer -------------------------- *)

\* lines 188-197: HTTPClient http; http.begin(serverUrl); http.addHeader(...)
sendDataToServer_Begin ==
    /\ pc = "http_begin"
    /\ httpOpen' = TRUE
    /\ pc' = "http_post"
    /\ UNCHANGED <<epoch, tickAt, startupWiFi, now, lastPostTime, status, attempts, ret, sample, jsonPayload,
                   httpResponseCode, setupObs, networkUsed, cycleObs>>

\* faulty variant: a transport failure is retried at once
AfterPost_Retry(code) == IF code <= 0 THEN "http_post" ELSE "http_end"

\* lines 203-216: both branches on httpResponseCode go on to http.end()
AfterPost(code) == "http_end"

\* line 200: int httpResponseCode = http.POST(jsonPayload)
sendDataToServer_Post ==
    /\ pc = "http_post"
    /\ \E code \in HttpCodes, d \in CallDurations :
          /\ Advance(d)
          /\ httpResponseCode' = code
          /\ pc' = AfterPost(code)
    /\ posts' = posts + 1
    /\ postedBody' = jsonPayload
    /\ networkUsed' = TRUE
    /\ UNCHANGED <<epoch, tickAt, startupWiFi, lastPostTime, status, attempts, ret, sample, jsonPayload,
                   httpOpen, setupObs, cycles, cycleStart, prevStart, readResult,
                   txStatus, statusCalls, warned, outcome, prevOutcome>>

\* lines 203-213: which report is printed
Delivered(code) == code > 0

\* faulty variant: the failure branch returns without http.end()
ClientOpenAfterEnd_LeakOnFailure(code) == ~(code > 0)

\* line 216: http.end() follows both branches
ClientOpenAfterEnd(code) == FALSE

\* lines 203-217: the report, http.end(), and the return to line 169 and to loop
sendDataToServer_End ==
    /\ pc = "http_end"
    /\ outcome' = (IF Delivered(httpResponseCode) THEN "delivered" ELSE "post_failed")
    /\ httpOpen' = ClientOpenAfterEnd(httpResponseCode)
    /\ pc' = "cycle_end"
    /\ UNCHANGED <<epoch, tickAt, startupWiFi, now, lastPostTime, status, attempts, ret, sample, jsonPayload,
                   httpResponseCode, setupObs, networkUsed, cycles, cycleStart,
                   prevStart, readResult, txStatus, statusCalls, posts, postedBody,
                   warned, prevOutcome>>

(* ------------------------------ the program ---------------------------- *)

Next ==
    \/ setup_Serial
    \/ setup_SensorBegin
    \/ setup_Halt
    \/ configureSensor
    \/ configureSensor_Halt
    \/ connectWiFi_Begin
    \/ connectWiFi_While
    \/ connectWiFi_Report
    \/ loop_Idle
    \/ loop_Fire
    \/ loop_Tick
    \/ readAndPostData_Read
    \/ readAndPostData_Encode
    \/ readAndPostData_Transmit
    \/ sendDataToServer_Begin
    \/ sendDataToServer_Post
    \/ sendDataToServer_End

Spec == Init /\ [][Next]_vars

\* the single thread of control always takes its next step
LiveSpec == Spec /\ WF_vars(Next)

(* ------------------- the program near the clock's wrap ------------------ *)

\* 4294900000 ms after boot, 67296 ms before millis() wraps at 2^32
WrapEpoch == <<65534, 63776>>

\* The program a little under 49.7 days after boot: setup returned long ago, a
\* cycle has just ended at the time WrapEpoch (lines 67-68), and loop has made
\* its delay(100) of line 72.  Tick times are 60000 ms apart plus the cycles'
\* durations, so the state is one the booted program reaches.
WrapInit ==
    /\ pc = "loop"
    /\ now = LOOP_DELAY
    /\ epoch = WrapEpoch
    /\ lastPostTime = WrapEpoch
    /\ tickAt = 0
    /\ attempts = 0
    /\ ret = "none"
    /\ status = "none"
    /\ sample = NoSample
    /\ jsonPayload = NoPayload
    /\ httpResponseCode = NoCode
    /\ httpOpen = FALSE
    /\ beginResult = "present"
    /\ configResult = "accepted"
    /\ networkUsed = TRUE
    /\ cycles = 1
    /\ cycleStart = 0
    /\ prevStart = Never
    /\ readResult = "none"
    /\ txStatus = "none"
    /\ statusCalls = 0
    /\ posts = 0
    /\ postedBody = NoPayload
    /\ warned = FALSE
    /\ outcome = "delivered"
    /\ prevOutcome = "none"
    /\ startupWiFi = "none"

\* setup has returned: only loop and the functions it calls take steps
RunNext ==
    \/ connectWiFi_Begin
    \/ connectWiFi_While
    \/ connectWiFi_Report
    \/ loop_Idle
    \/ loop_Fire
    \/ loop_Tick
    \/ readAndPostData_Read
    \/ readAndPostData_Encode
    \/ readAndPostData_Transmit
    \/ sendDataToServer_Begin
    \/ sendDataToServer_Post
    \/ sendDataToServer_End

WrapSpec == WrapInit /\ [][RunNext]_vars

\* the real time since boot, in three 16-bit parts <<top, high, low>>
Uptime ==
    LET lo == epoch[2] + now
        hi == epoch[1] + (lo \div Half)
    IN  <<hi \div Half, hi % Half, lo % Half>>

\* millis() has wrapped
Wrapped == Uptime[1] > 0

(* ------------------------------- positions ----------------------------- *)

HaltPcs == {"halt_nosensor", "halt_config"}
ConnectPcs == {"cw_begin", "cw_loop", "cw_final"}
SendPcs == {"http_begin", "http_post", "http_end"}
\* inside readAndPostData (connectWiFi counts when the cycle called it)
CyclePcs == {"read", "encode", "transmit"} \cup SendPcs
InCycle == pc \in CyclePcs \/ (pc \in ConnectPcs /\ ret = "cycle")
\* setup() has returned
Running == pc \in {"loop", "cycle_end"} \/ InCycle

\* the longest a cycle can take: readAll, thirty retry delays, or readAll and POST
MaxCycleDur == MAX_ATTEMPTS * WIFI_RETRY_DELAY + 2 * MaxCallTicks * TickMs

(* -------------------------------- claims ------------------------------- *)

\* C1: when uvSensor.begin() reports absence, the process stays in the halt loop
\* of setup: no cycle is ever started (loop and readAndPostData are not reached)
\* and neither WiFi.begin nor http.POST is ever called.
C1_AbsentSensorHalts ==
    beginResult = "absent" =>
        /\ pc = "halt_nosensor"
        /\ cycles = 0
        /\ ~networkUsed
        /\ configResult = "none"

C1_Witness == beginResult = "absent" /\ pc = "halt_nosensor" /\ now >= 3 * HALT_DELAY

\* C2: when begin succeeds and prepareMeasurement is rejected, the process stays
\* in the halt loop of configureSensor: WiFi.begin is never called, no cycle is
\* started and nothing is posted.
C2_RejectedConfigHalts ==
    configResult = "rejected" =>
        /\ beginResult = "present"
        /\ pc = "halt_config"
        /\ cycles = 0
        /\ ~networkUsed
        /\ posts = 0

C2_Witness == configResult = "rejected" /\ pc = "halt_config" /\ now >= 3 * HALT_DELAY

\* C3: in a cycle whose transmit stage found the network not connected and whose
\* reconnection failed, no POST is issued, and the cycle returns to loop: the
\* process is at the end of the cycle or back in the polling loop, never halted.
C3_FailedReconnectSkipsPost ==
    outcome = "reconnect_failed" =>
        /\ pc \in {"cycle_end", "loop"}
        /\ posts = 0
        /\ postedBody = NoPayload
        /\ ~httpOpen
        /\ (pc = "cycle_end" => txStatus = WL_DISCONNECTED)

\* a cycle that follows a failed reconnection has read the sensor again
C3_Witness == prevOutcome = "reconnect_failed" /\ readResult = ksfTkErrOk

\* C4: two consecutive cycles never start less than POST_INTERVAL minus one
\* polling-loop delay apart, whatever the earlier cycle's outcome.
C4_CycleSpacing ==
    prevStart # Never => cycleStart - prevStart >= POST_INTERVAL - LOOP_DELAY

\* a second cycle has started after a first one that took time
C4_Witness ==
    /\ prevStart # Never
    /\ pc = "read"
    /\ prevOutcome = "post_failed"
    /\ cycleStart - prevStart > POST_INTERVAL

\* C5: once setup has returned, a cycle that is running always completes, and
\* after a completed cycle (or after setup) the next cycle always starts,
\* whatever the cycle's outcome; stated for the part of the observation in which
\* the clock can still reach the next tick.
C5_NextCycleEventually ==
    /\ (InCycle /\ now <= MaxNow - MaxCycleDur) ~> (pc = "cycle_end")
    /\ (pc \in {"loop", "cycle_end"} /\ now <= MaxNow - POST_INTERVAL - LOOP_DELAY)
          ~> (pc = "read")

\* a second cycle has started after a cycle that failed
C5_Witness ==
    /\ pc = "read"
    /\ cycles = 2
    /\ prevOutcome \in {"read_failed", "reconnect_failed", "post_failed"}

\* the payload createJsonPayload builds from a sample, whatever its timestamp
SameFields(p, s) ==
    /\ Len(p) = 7
    /\ p = [createJsonPayload(s.uva, s.uvb, s.uvc, s.temp) EXCEPT ![1] = p[1]]

\* C6: after a successful read the all-zero test only decides the warning: the
\* record is encoded from the sample, the transmit stage is entered, and when the
\* network is connected exactly that record is posted, for an all-zero sample
\* as for any other.
C6_ZeroSampleStillSent ==
    (readResult = ksfTkErrOk /\ pc # "encode") =>
        /\ warned = AllZero(sample)
        /\ SameFields(jsonPayload, sample)
        /\ (pc = "cycle_end" => txStatus \in WlStatus)
        /\ (txStatus = WL_CONNECTED /\ pc \in {"http_end", "cycle_end"}
               => posts = 1 /\ postedBody = jsonPayload)

\* an all-zero sample has been warned about and posted
C6_Witness ==
    /\ readResult = ksfTkErrOk
    /\ AllZero(sample)
    /\ warned
    /\ pc = "cycle_end"
    /\ posts = 1
    /\ SameFields(postedBody, sample)

\* C7: a failed read ends the cycle at once: no record, no WiFi.status() call,
\* no POST, no open client; the process is at the end of the cycle or back in
\* the polling loop, from where the next cycle reads again.
C7_ReadFailureNonFatal ==
    /\ readResult = ksfTkErrFail =>
          /\ pc = "cycle_end"
          /\ outcome = "read_failed"
          /\ jsonPayload = NoPayload
          /\ statusCalls = 0
          /\ txStatus = "none"
          /\ posts = 0
          /\ ~httpOpen
    /\ outcome = "read_failed" => pc \in {"cycle_end", "loop"}

\* the cycle after a failed read has called readAll again
C7_Witness == prevOutcome = "read_failed" /\ readResult \in ReadResults

\* C8: a cycle issues at most one POST, only when line 162 saw the network
\* connected; once it is issued the cycle only reports (delivered for a code > 0,
\* failed for a code <= 0), closes the client and returns.
C8_AtMostOnePost ==
    /\ posts <= 1
    /\ posts = 1 =>
          /\ pc \in {"http_end", "cycle_end"}
          /\ txStatus = WL_CONNECTED
          /\ (pc = "cycle_end" =>
                 outcome = (IF httpResponseCode > 0 THEN "delivered" ELSE "post_failed"))
    /\ pc = "http_end" => posts = 1

\* a POST that failed in transport has been reported and the cycle has returned
C8_Witness ==
    /\ pc = "cycle_end"
    /\ posts = 1
    /\ httpResponseCode <= 0
    /\ outcome = "post_failed"

\* C9: connectWiFi makes at most MAX_ATTEMPTS waits of WIFI_RETRY_DELAY each,
\* every wait following a not-connected status; it leaves the loop without
\* waiting when the status is connected or the attempts are used up, and from
\* its report it returns to its caller, connected or not.
C9_ConnectTerminates ==
    /\ [](/\ attempts <= MAX_ATTEMPTS
          /\ (pc = "cw_final" => status = WL_CONNECTED \/ attempts = MAX_ATTEMPTS))
    /\ [][pc = "cw_loop" =>
             \/ /\ pc' = "cw_loop"
                /\ status' = WL_DISCONNECTED
                /\ attempts' = attempts + 1
                /\ now' = now + WIFI_RETRY_DELAY
             \/ /\ pc' = "cw_final"
                /\ attempts' = attempts
                /\ now' = now]_vars
    /\ [][pc = "cw_final" =>
             /\ pc' = (IF ret = "setup" THEN "loop" ELSE "cycle_end")
             /\ now' = now]_vars

\* a reconnection inside a cycle has used all its attempts and returned
C9_Witness ==
    /\ pc = "cycle_end"
    /\ txStatus = WL_DISCONNECTED
    /\ now - cycleStart >= MAX_ATTEMPTS * WIFI_RETRY_DELAY

\* C10: lastPostTime is written only by the step that ends a cycle in loop(),
\* which stores the clock whatever the cycle's outcome: back in the polling
\* loop after a cycle, lastPostTime is a time within that cycle's duration of
\* its start.
C10_TickAfterEveryCycle ==
    /\ [][/\ (pc = "cycle_end" => lastPostTime' = millis /\ pc' = "loop")
          /\ (pc # "cycle_end" => lastPostTime' = lastPostTime)]_vars
    /\ [](pc = "loop" /\ cycles > 0 =>
             ~U32Ge(U32Sub(lastPostTime, U32(cycleStart)), U32(MaxCycleDur + 1)))

\* the schedule value has been updated after a cycle with a failed reconnection
C10_Witness ==
    /\ pc = "loop"
    /\ outcome = "reconnect_failed"
    /\ U32Ge(lastPostTime, U32(cycleStart))
    /\ lastPostTime # U32(0)

\* C11: a connectWiFi that reports failure in setup does not stop the program:
\* setup returns and loop runs; and every cycle whose line 162 finds the network
\* not connected calls connectWiFi again before it ends.
C11_StartupFailureRetried ==
    /\ startupWiFi = "failed" => Running
    /\ txStatus = WL_DISCONNECTED =>
          \/ pc \in ConnectPcs /\ ret = "cycle"
          \/ pc = "cycle_end" /\ outcome \in {"reconnected", "reconnect_failed"}

\* after a failed connection in setup, the first cycle is waiting in connectWiFi
C11_Witness ==
    /\ startupWiFi = "failed"
    /\ cycles = 1
    /\ txStatus = WL_DISCONNECTED
    /\ pc = "cw_loop"
    /\ attempts > 0

\* the timestamp field of a record, as the unsigned long it prints
Stamp(p) == p[1][2]

\* C12 as stated: the timestamp of a record is the time since boot as a 64-bit
\* number, which never wraps (so that it grows from record to record for ever).
C12_TimestampIsUptime64 ==
    pc = "transmit" => <<0>> \o Stamp(jsonPayload) = Uptime

\* C12 as amended: the timestamp of a record is millis(), the time since boot
\* modulo 2^32; it is the time since boot itself only until the clock wraps.
C12_TimestampIsUptimeMod32 ==
    pc = "transmit" =>
        /\ Stamp(jsonPayload) = <<Uptime[2], Uptime[3]>>
        /\ (~Wrapped => <<0>> \o Stamp(jsonPayload) = Uptime)

\* a record encoded after the wrap carries a timestamp that started again near 0
C12_Witness ==
    /\ pc = "transmit"
    /\ Wrapped
    /\ Stamp(jsonPayload)[1] = 0
    /\ ~U32Ge(Stamp(jsonPayload), lastPostTime)

\* the text of lines 174-182 for a sample s and a clock reading t
RecordOf(s, t) ==
    << <<"timestamp", t>>,
       <<"uva", String2(s.uva)>>,
       <<"uvb", String2(s.uvb)>>,
       <<"uvc", String2(s.uvc)>>,
       <<"temperature", String2(s.temp)>>,
       <<"device", "ESP32-C6">>,
       <<"sensor", "AS7331">> >>

\* C13: the record a cycle encodes is a fixed function of the sample and of the
\* timestamp it carries: whatever else the state holds (cycle count, schedule
\* value, earlier outcomes, network state), equal inputs give the same text.
C13_EncodingDependsOnInputsOnly ==
    jsonPayload # NoPayload => jsonPayload = RecordOf(sample, Stamp(jsonPayload))

\* the second cycle has encoded a record after a first cycle that failed
C13_Witness ==
    /\ cycles = 2
    /\ prevOutcome = "reconnect_failed"
    /\ pc = "transmit"
    /\ ~AllZero(sample)
    /\ jsonPayload = RecordOf(sample, millis)

\* C14: a cycle starts only when no other cycle is under way: at its start no
\* read, record, status check, reconnection, POST or open client of an earlier
\* cycle is pending, and lastPostTime was set after the previous cycle began.
C14_OneCycleInFlight ==
    pc = "read" =>
        /\ readResult = "none"
        /\ sample = NoSample
        /\ jsonPayload = NoPayload
        /\ txStatus = "none"
        /\ statusCalls = 0
        /\ attempts = 0
        /\ ret = "none"
        /\ posts = 0
        /\ ~httpOpen
        /\ outcome = "running"
        /\ (prevStart # Never => prevStart <= tickAt /\ tickAt <= cycleStart)

\* the second cycle starts after a first one that spent time reconnecting
C14_Witness ==
    /\ pc = "read"
    /\ cycles = 2
    /\ prevOutcome = "reconnected"
    /\ tickAt >= prevStart + WIFI_RETRY_DELAY

\* the clock reading t was taken in the current cycle, before the POST returned
StampedThisCycle(t) ==
    ~U32Ge(U32Sub(t, U32Add(epoch, cycleStart)), U32(MaxCallTicks * TickMs + 1))

\* C15: a POST is made only in a cycle whose readAll succeeded, at most once, and
\* its body is the record of that cycle's sample, stamped in that cycle; a cycle
\* whose read failed posts nothing.
C15_PostCarriesThisCyclesSample ==
    /\ posts >= 1 =>
          /\ posts = 1
          /\ readResult = ksfTkErrOk
          /\ postedBody = jsonPayload
          /\ postedBody = RecordOf(sample, Stamp(postedBody))
          /\ StampedThisCycle(Stamp(postedBody))
    /\ readResult = ksfTkErrFail => posts = 0 /\ postedBody = NoPayload

\* the second cycle has posted its own record after a first cycle that posted
C15_Witness ==
    /\ cycles = 2
    /\ prevOutcome = "delivered"
    /\ pc = "cycle_end"
    /\ posts = 1
    /\ Stamp(postedBody) = U32Add(epoch, cycleStart + MaxCallTicks * TickMs)

\* C16: a cycle whose line 162 found the network not connected never posts,
\* also when its connectWiFi then reports success: it ends with its record
\* unsent; a POST seen after a reconnection belongs to a later cycle and
\* carries that cycle's own sample and timestamp.
C16_NoPostInReconnectCycle ==
    /\ txStatus = WL_DISCONNECTED =>
          /\ pc \notin SendPcs
          /\ posts = 0
          /\ postedBody = NoPayload
          /\ ~httpOpen
    /\ outcome = "reconnected" => pc \in {"cycle_end", "loop"} /\ posts = 0
    /\ (prevOutcome = "reconnected" /\ posts = 1) =>
          /\ txStatus = WL_CONNECTED
          /\ postedBody = RecordOf(sample, Stamp(postedBody))
          /\ StampedThisCycle(Stamp(postedBody))

\* the cycle after a successful reconnection has posted
C16_Witness ==
    /\ prevOutcome = "reconnected"
    /\ pc = "cycle_end"
    /\ posts = 1
    /\ outcome = "delivered"

\* lastPostTime was set before the clock wrapped
TickBeforeWrap == epoch[1] + ((epoch[2] + tickAt) \div Half) < Half

\* C17: with the clock wrapping at 2^32, a cycle still starts only when at least
\* POST_INTERVAL real milliseconds have passed since lastPostTime was set, and
\* the polling loop never waits a whole loop delay beyond that.
C17_TickTestAcrossWrap ==
    /\ lastPostTime = U32Add(epoch, tickAt)
    /\ (InCycle \/ pc = "cycle_end") => cycleStart - tickAt >= POST_INTERVAL
    /\ pc = "loop" => now - tickAt < POST_INTERVAL + LOOP_DELAY

\* a cycle has started after the wrap on a lastPostTime set before the wrap
C17_Witness ==
    /\ pc = "read"
    /\ Wrapped
    /\ TickBeforeWrap
    /\ ~U32Ge(millis, lastPostTime)
    /\ cycleStart - tickAt = POST_INTERVAL


\* C18: before POST_INTERVAL milliseconds have passed since boot no cycle has
\* started, so the sensor has not been read and nothing has been posted; when
\* setup hands over to loop the tick test is false, and the first cycle starts
\* no earlier than POST_INTERVAL.
C18_NoCycleBeforeFirstInterval ==
    /\ now < POST_INTERVAL =>
          /\ cycles = 0
          /\ ~InCycle
          /\ readResult = "none"
          /\ sample = NoSample
          /\ posts = 0
          /\ postedBody = NoPayload
    /\ (pc = "loop" /\ now < POST_INTERVAL) => ~Due
    /\ cycles >= 1 => cycleStart >= POST_INTERVAL

\* the first cycle has started, exactly POST_INTERVAL after boot
C18_Witness ==
    /\ pc = "read"
    /\ cycles = 1
    /\ prevStart = Never
    /\ cycleStart = POST_INTERVAL
    /\ lastPostTime = U32(0)


\* C19: the HTTP client is open exactly between http.begin and http.end of one
\* post attempt; once sendDataToServer has returned, whether the POST gave a
\* code > 0 or a code <= 0, the client is released, and none is open in the
\* polling loop or when the next cycle starts.
C19_ClientReleasedAfterPost ==
    /\ httpOpen = (pc \in {"http_post", "http_end"})
    /\ (pc = "cycle_end" /\ posts = 1) => ~httpOpen
    /\ pc \in {"loop", "read", "encode", "transmit", "http_begin"} => ~httpOpen

\* a post attempt that failed in transport has returned with the client released
C19_Witness ==
    /\ pc = "cycle_end"
    /\ postedBody # NoPayload
    /\ ~Delivered(httpResponseCode)
    /\ ~httpOpen
    /\ cycles >= 2

====
